---- MODULE Spec2Model ----
(***************************************************************************)
(* State-machine model of the MAC address table (mac_table.c) and its      *)
(* expiry manager (mac_table_expiry_manager.c): an open-addressed slot     *)
(* table with tombstones, a binary min-heap of (slot, expiry) pairs and a  *)
(* one-shot timer that purges expired entries.                             *)
(***************************************************************************)
EXTENDS Integers, Sequences, FiniteSets, TLC

\* ------------------------------------------------------------------------
\* Bounds of the model
\* ------------------------------------------------------------------------
\* capacity handed to mac_table_init (the `size` argument)
TableSize == 3
\* the clock (time(NULL)) runs from 0 to MaxTime
MaxTime == 1
\* the lifetime counters are capped at MaxCount by the guards of the actions
MaxCount == 4
\* default time-to-live handed to mac_table_init (the `expiry_seconds` argument)
ExpirySeconds == 1
\* largest custom_duration an insert option carries
MaxCustomDuration == 0
\* roles are 0 .. MaxRole
MaxRole == 1
\* largest custom_duration of the inserts that set the timer's deadlines
MaxTimerDuration == 2
\* capacity of the expiry queue checked on its own (three levels of the heap)
HeapCapacity == 6
\* expiry times of that queue are 0 .. MaxHeapTime
MaxHeapTime == 1

\* ------------------------------------------------------------------------
\* Program constants
\* ------------------------------------------------------------------------
MAC_ADDR_LEN == 6
DEFAULT_ROLE == 0

SLOT_EMPTY == "SLOT_EMPTY"
SLOT_TOMBSTONE == "SLOT_TOMBSTONE"
SLOT_OCCUPIED == "SLOT_OCCUPIED"

MAC_TABLE_OK == "MAC_TABLE_OK"
MAC_TABLE_TIMEOUT == "MAC_TABLE_TIMEOUT"
MAC_TABLE_NOT_FOUND == "MAC_TABLE_NOT_FOUND"
MAC_TABLE_INSERTED == "MAC_TABLE_INSERTED"
MAC_TABLE_UPDATED == "MAC_TABLE_UPDATED"
MAC_TABLE_DELETED == "MAC_TABLE_DELETED"
MAC_TABLE_FULL == "MAC_TABLE_FULL"

\* the addresses the application uses (test_mac_1 .. test_mac_4 of app_main)
test_mac_1 == <<0, 26, 43, 60, 77, 94>>
test_mac_2 == <<0, 26, 43, 60, 77, 95>>
test_mac_3 == <<0, 26, 43, 60, 77, 96>>
test_mac_4 == <<0, 26, 43, 60, 77, 97>>
Macs == {test_mac_1, test_mac_2, test_mac_3, test_mac_4}
\* the all-zero address mac_table_init writes into every slot
ZeroMac == <<0, 0, 0, 0, 0, 0>>

Slots == 0 .. (TableSize - 1)
Roles == 0 .. MaxRole

\* ------------------------------------------------------------------------
\* mac_hash: 32-bit FNV-1a over the six bytes, modulo the table size.
\* The 32-bit value is kept as two 16-bit halves so that every intermediate
\* product stays inside the model checker's integers; the arithmetic is the
\* code's arithmetic modulo 2^32.
\* ------------------------------------------------------------------------
RECURSIVE xor(_, _)
xor(a, b) ==
    IF a = 0 THEN b
    ELSE IF b = 0 THEN a
    ELSE (((a % 2) + (b % 2)) % 2) + 2 * xor(a \div 2, b \div 2)

\* hash ^= byte; hash *= 0x01000193   (0x01000193 = 2^24 + 403)
fnv_step(h, byte) ==
    LET lo1 == (h.lo - (h.lo % 256)) + xor(h.lo % 256, byte)
        prod == lo1 * 403
    IN  [lo |-> prod % 65536,
         hi |-> (h.hi * 403 + (prod \div 65536) + (lo1 % 256) * 256) % 65536]

RECURSIVE fnv_loop(_, _, _)
fnv_loop(h, mac, i) ==
    IF i > MAC_ADDR_LEN THEN h ELSE fnv_loop(fnv_step(h, mac[i]), mac, i + 1)

\* the 32-bit hash of each address before the modulo, computed once
\* (0x811C9DC5 = 33052 * 65536 + 40389)
fnv1a == [mac \in Macs |-> fnv_loop([hi |-> 33052, lo |-> 40389], mac, 1)]

mac_hash(mac, size) ==
    (((fnv1a[mac].hi % size) * (65536 % size)) + (fnv1a[mac].lo % size)) % size

\* ------------------------------------------------------------------------
\* Min-heap of HeapEntry records; the live part entries[0 .. size-1] of the
\* C array is the sequence h, C index i being h[i + 1].
\* ------------------------------------------------------------------------
HeapEntry(slot_index, expiry_time) ==
    [slot_index |-> slot_index, expiry_time |-> expiry_time]

heap_parent(index) == (index - 1) \div 2
heap_left_child(index) == 2 * index + 1
heap_right_child(index) == 2 * index + 2

heap_swap(h, i, j) == [h EXCEPT ![i + 1] = h[j + 1], ![j + 1] = h[i + 1]]

RECURSIVE heap_bubble_up(_, _)
heap_bubble_up(h, index) ==
    IF index > 0
    THEN LET parent == heap_parent(index) IN
         IF h[index + 1].expiry_time >= h[parent + 1].expiry_time
         THEN h
         ELSE heap_bubble_up(heap_swap(h, index, parent), parent)
    ELSE h

RECURSIVE heap_bubble_down(_, _)
heap_bubble_down(h, index) ==
    LET left == heap_left_child(index)
        right == heap_right_child(index)
        m1 == IF left < Len(h) /\ h[left + 1].expiry_time < h[index + 1].expiry_time
              THEN left ELSE index
        m2 == IF right < Len(h) /\ h[right + 1].expiry_time < h[m1 + 1].expiry_time
              THEN right ELSE m1
    IN  IF m2 = index THEN h ELSE heap_bubble_down(heap_swap(h, index, m2), m2)

\* min_heap_insert on a heap of the given capacity: returns the heap; a full
\* heap (return value -1) is left unchanged
min_heap_insert_capacity(h, capacity, slot_index, expiry_time) ==
    IF Len(h) >= capacity
    THEN h
    ELSE heap_bubble_up(Append(h, HeapEntry(slot_index, expiry_time)), Len(h))

\* the heap of the table's manager is created with capacity table->size
min_heap_insert(h, slot_index, expiry_time) ==
    min_heap_insert_capacity(h, TableSize, slot_index, expiry_time)

\* C index of the first heap entry of slot_index, or -1
heap_find(h, slot_index) ==
    LET hits == {i \in 0 .. (Len(h) - 1) : h[i + 1].slot_index = slot_index}
    IN  IF hits = {} THEN -1 ELSE CHOOSE i \in hits : \A j \in hits : i <= j

\* min_heap_remove restoring the order downwards only
min_heap_remove_down_only(h, slot_index) ==
    LET i == heap_find(h, slot_index) IN
    IF i = -1
    THEN h
    ELSE LET moved == [h EXCEPT ![i + 1] = h[Len(h)]]
             shrunk == SubSeq(moved, 1, Len(h) - 1)
         IN  IF i < Len(shrunk) THEN heap_bubble_down(shrunk, i) ELSE shrunk

min_heap_remove(h, slot_index) ==
    LET i == heap_find(h, slot_index) IN
    IF i = -1
    THEN h
    ELSE LET moved == [h EXCEPT ![i + 1] = h[Len(h)]]
             shrunk == SubSeq(moved, 1, Len(h) - 1)
         IN  IF i < Len(shrunk)
             THEN heap_bubble_down(heap_bubble_up(shrunk, i), i)
             ELSE shrunk

min_heap_peek(h) == IF Len(h) = 0 THEN 0 ELSE h[1].expiry_time

\* min_heap_pop that moves the last entry to the root and leaves it there
min_heap_pop_no_bubble(h) ==
    LET moved == [h EXCEPT ![1] = h[Len(h)]]
    IN  SubSeq(moved, 1, Len(h) - 1)

\* the heap after min_heap_pop; the popped entry is h[1]
min_heap_pop(h) ==
    LET moved == [h EXCEPT ![1] = h[Len(h)]]
        shrunk == SubSeq(moved, 1, Len(h) - 1)
    IN  IF Len(shrunk) > 0 THEN heap_bubble_down(shrunk, 0) ELSE shrunk

\* ------------------------------------------------------------------------
\* State
\* ------------------------------------------------------------------------
VARIABLES
    entries,         \* table->entries: slot -> [mac, timeout_duration, state, role]
    heap,            \* manager->heap: the live heap entries, root first
    timer_active,    \* xTimerIsTimerActive(manager->expiry_timer)
    timer_deadline,  \* clock value at which the armed timer fires (0 when idle)
    stats,           \* table->stats
    now,             \* time(NULL)
    app_pc,          \* where the application task stands inside a table call
    timer_pc         \* where the timer service task stands inside the callback

vars == <<entries, heap, timer_active, timer_deadline, stats, now, app_pc, timer_pc>>

\* a pointer argument (opts, protected_roles, out_entry) is a sequence: the
\* null pointer is the empty sequence, a valid pointer holds what it points to
NULL == <<>>

Event(slot_index, mac, status) ==
    [slot_index |-> slot_index, mac |-> mac, status |-> status]

\* the expiry manager's mutable part, passed through the manager functions
Manager(h, active, deadline) ==
    [heap |-> h, timer_active |-> active, timer_deadline |-> deadline]

\* xTimerChangePeriod + xTimerStart: the period is (next_expiry - now) seconds,
\* or one tick when next_expiry is not in the future, so the timer fires once
\* the clock has reached next_expiry (at once when it already has)
timer_arm(mgr, next_expiry, t) ==
    [mgr EXCEPT !.timer_active = TRUE,
                !.timer_deadline = IF next_expiry > t THEN next_expiry ELSE t]

\* xTimerStop, and the state of the one-shot timer once it has fired
timer_stop(mgr) == [mgr EXCEPT !.timer_active = FALSE, !.timer_deadline = 0]

\* mutant of expiry_manager_add_or_update: the slot's old heap entry stays
expiry_manager_add_or_update_keeps_old(mgr, e, slot_index, t) ==
    IF slot_index >= TableSize THEN mgr
    ELSE IF e[slot_index].state # SLOT_OCCUPIED THEN mgr
    ELSE LET h2 == min_heap_insert(mgr.heap, slot_index, e[slot_index].timeout_duration)
             next_expiry == min_heap_peek(h2)
             m2 == [mgr EXCEPT !.heap = h2]
         IN  IF next_expiry > 0 /\ (~mgr.timer_active \/ next_expiry <= t)
             THEN timer_arm(m2, next_expiry, t)
             ELSE m2

expiry_manager_add_or_update(mgr, e, slot_index, t) ==
    IF slot_index >= TableSize THEN mgr
    ELSE IF e[slot_index].state # SLOT_OCCUPIED THEN mgr
    ELSE LET h1 == min_heap_remove(mgr.heap, slot_index)
             h2 == min_heap_insert(h1, slot_index, e[slot_index].timeout_duration)
             next_expiry == min_heap_peek(h2)
             m2 == [mgr EXCEPT !.heap = h2]
         IN  IF next_expiry > 0 /\ (~mgr.timer_active \/ next_expiry <= t)
             THEN timer_arm(m2, next_expiry, t)
             ELSE m2

expiry_manager_delete(mgr, slot_index, t) ==
    IF slot_index >= TableSize THEN mgr
    ELSE LET h1 == min_heap_remove(mgr.heap, slot_index)
             m1 == [mgr EXCEPT !.heap = h1]
         IN  IF Len(h1) > 0
             THEN timer_arm(m1, min_heap_peek(h1), t)
             ELSE timer_stop(m1)

\* ------------------------------------------------------------------------
\* mac_table.c
\* ------------------------------------------------------------------------
\* what a table operation leaves behind: the slots, the expiry manager and the
\* statistics after it, the on_event calls it made (in call order) and the
\* value it returned
Outcome(e, mgr, st, ev, ret) ==
    [entries |-> e, mgr |-> mgr, stats |-> st, events |-> ev, ret |-> ret]

\* mutants of insert_probe: one claims the first TOMBSTONE it meets, one never
\* remembers a TOMBSTONE
RECURSIVE insert_probe_first_tombstone(_, _, _, _)
insert_probe_first_tombstone(e, mac, i, first_tombstone) ==
    IF i >= TableSize THEN [kind |-> "full", slot |-> -1]
    ELSE LET probe == (mac_hash(mac, TableSize) + i) % TableSize IN
         IF e[probe].state = SLOT_OCCUPIED
         THEN IF e[probe].mac = mac
              THEN [kind |-> "update", slot |-> probe]
              ELSE insert_probe_first_tombstone(e, mac, i + 1, first_tombstone)
         ELSE IF e[probe].state = SLOT_TOMBSTONE
         THEN [kind |-> "tombstone", slot |-> probe]
         ELSE [kind |-> "empty", slot |-> probe]

RECURSIVE insert_probe_no_reuse(_, _, _, _)
insert_probe_no_reuse(e, mac, i, first_tombstone) ==
    IF i >= TableSize THEN [kind |-> "full", slot |-> -1]
    ELSE LET probe == (mac_hash(mac, TableSize) + i) % TableSize IN
         IF e[probe].state = SLOT_OCCUPIED
         THEN IF e[probe].mac = mac
              THEN [kind |-> "update", slot |-> probe]
              ELSE insert_probe_no_reuse(e, mac, i + 1, first_tombstone)
         ELSE IF e[probe].state = SLOT_EMPTY
         THEN [kind |-> "empty", slot |-> probe]
         ELSE insert_probe_no_reuse(e, mac, i + 1, first_tombstone)

\* the probe loop of mac_table_insert_ex: which slot the insert lands on
RECURSIVE insert_probe(_, _, _, _)
insert_probe(e, mac, i, first_tombstone) ==
    IF i >= TableSize
    THEN IF first_tombstone # -1
         THEN [kind |-> "tombstone", slot |-> first_tombstone]
         ELSE [kind |-> "full", slot |-> -1]
    ELSE LET probe == (mac_hash(mac, TableSize) + i) % TableSize IN
         IF e[probe].state = SLOT_OCCUPIED
         THEN IF e[probe].mac = mac
              THEN [kind |-> "update", slot |-> probe]
              ELSE insert_probe(e, mac, i + 1, first_tombstone)
         ELSE IF e[probe].state = SLOT_TOMBSTONE /\ first_tombstone = -1
         THEN insert_probe(e, mac, i + 1, probe)
         ELSE IF e[probe].state = SLOT_EMPTY
         THEN [kind |-> "empty", slot |-> probe]
         ELSE insert_probe(e, mac, i + 1, first_tombstone)

\* timeout and role as mac_table_insert_ex computes them from opts
insert_timeout(opts, t) ==
    IF opts # NULL /\ opts[1].has_custom_duration
    THEN t + opts[1].custom_duration
    ELSE t + ExpirySeconds

insert_role(opts) ==
    IF opts # NULL /\ opts[1].has_role THEN opts[1].role ELSE DEFAULT_ROLE

\* mac_table_insert_ex whose update branch leaves the stored role alone
mac_table_insert_ex_keeps_role(e, mgr, st, mac, opts, t) ==
    LET timeout == insert_timeout(opts, t)
        role == insert_role(opts)
        p == insert_probe(e, mac, 0, -1)
    IN  IF p.kind = "update"
        THEN LET e1 == [e EXCEPT ![p.slot].timeout_duration = timeout]
             IN  Outcome(e1, expiry_manager_add_or_update(mgr, e1, p.slot, t), st,
                         <<Event(p.slot, mac, MAC_TABLE_UPDATED)>>, MAC_TABLE_UPDATED)
        ELSE IF p.kind = "full"
        THEN Outcome(e, mgr, st, <<Event(-1, mac, MAC_TABLE_FULL)>>, MAC_TABLE_FULL)
        ELSE LET e1 == [e EXCEPT ![p.slot] = [mac |-> mac, timeout_duration |-> timeout,
                                              state |-> SLOT_OCCUPIED, role |-> role]]
                 st1 == [st EXCEPT !.total_inserts = @ + 1, !.active_entries = @ + 1]
             IN  Outcome(e1, expiry_manager_add_or_update(mgr, e1, p.slot, t), st1,
                         <<Event(p.slot, mac, MAC_TABLE_INSERTED)>>, MAC_TABLE_INSERTED)

mac_table_insert_ex(e, mgr, st, mac, opts, t) ==
    LET timeout == insert_timeout(opts, t)
        role == insert_role(opts)
        p == insert_probe(e, mac, 0, -1)
    IN  IF p.kind = "update"
        THEN LET e1 == [e EXCEPT ![p.slot].timeout_duration = timeout,
                                 ![p.slot].role = role]
             IN  Outcome(e1, expiry_manager_add_or_update(mgr, e1, p.slot, t), st,
                         <<Event(p.slot, mac, MAC_TABLE_UPDATED)>>, MAC_TABLE_UPDATED)
        ELSE IF p.kind = "full"
        THEN Outcome(e, mgr, st, <<Event(-1, mac, MAC_TABLE_FULL)>>, MAC_TABLE_FULL)
        ELSE LET e1 == [e EXCEPT ![p.slot] = [mac |-> mac, timeout_duration |-> timeout,
                                              state |-> SLOT_OCCUPIED, role |-> role]]
                 st1 == [st EXCEPT !.total_inserts = @ + 1, !.active_entries = @ + 1]
             IN  Outcome(e1, expiry_manager_add_or_update(mgr, e1, p.slot, t), st1,
                         <<Event(p.slot, mac, MAC_TABLE_INSERTED)>>, MAC_TABLE_INSERTED)

mac_table_insert(e, mgr, st, mac, t) == mac_table_insert_ex(e, mgr, st, mac, NULL, t)

\* the probe loop shared by mac_table_exists and mac_table_delete: the slot of
\* mac, or -1 when the probe meets an EMPTY slot or completes the cycle
RECURSIVE lookup_probe(_, _, _)
lookup_probe(e, mac, i) ==
    IF i >= TableSize THEN -1
    ELSE LET probe == (mac_hash(mac, TableSize) + i) % TableSize IN
         IF e[probe].state = SLOT_EMPTY THEN -1
         ELSE IF e[probe].state = SLOT_OCCUPIED /\ e[probe].mac = mac THEN probe
         ELSE lookup_probe(e, mac, i + 1)

\* mac_table_exists that answers found only for an entry whose expiry is
\* still ahead of the clock
mac_table_exists_unexpired(e, mac) ==
    IF lookup_probe(e, mac, 0) = -1 THEN MAC_TABLE_NOT_FOUND
    ELSE IF e[lookup_probe(e, mac, 0)].timeout_duration <= now THEN MAC_TABLE_NOT_FOUND
    ELSE MAC_TABLE_OK

mac_table_exists(e, mac) ==
    IF lookup_probe(e, mac, 0) = -1 THEN MAC_TABLE_NOT_FOUND ELSE MAC_TABLE_OK

\* mutants of mac_table_delete: one marks the vacated slot EMPTY, one leaves
\* the slot's entry in the expiry queue
mac_table_delete_to_empty(e, mgr, st, mac, t) ==
    LET probe == lookup_probe(e, mac, 0) IN
    IF probe = -1
    THEN Outcome(e, mgr, st, <<>>, MAC_TABLE_NOT_FOUND)
    ELSE Outcome([e EXCEPT ![probe].state = SLOT_EMPTY],
                 expiry_manager_delete(mgr, probe, t),
                 [st EXCEPT !.total_deletes = @ + 1, !.active_entries = @ - 1],
                 <<Event(probe, mac, MAC_TABLE_DELETED)>>, MAC_TABLE_DELETED)

mac_table_delete_keeps_queue_entry(e, mgr, st, mac, t) ==
    LET probe == lookup_probe(e, mac, 0) IN
    IF probe = -1
    THEN Outcome(e, mgr, st, <<>>, MAC_TABLE_NOT_FOUND)
    ELSE Outcome([e EXCEPT ![probe].state = SLOT_TOMBSTONE],
                 mgr,
                 [st EXCEPT !.total_deletes = @ + 1, !.active_entries = @ - 1],
                 <<Event(probe, mac, MAC_TABLE_DELETED)>>, MAC_TABLE_DELETED)

\* mutant of mac_table_delete: the delete takes the insert back out of
\* total_inserts
mac_table_delete_uncounts(e, mgr, st, mac, t) ==
    LET probe == lookup_probe(e, mac, 0) IN
    IF probe = -1
    THEN Outcome(e, mgr, st, <<>>, MAC_TABLE_NOT_FOUND)
    ELSE Outcome([e EXCEPT ![probe].state = SLOT_TOMBSTONE],
                 expiry_manager_delete(mgr, probe, t),
                 [st EXCEPT !.total_inserts = @ - 1, !.active_entries = @ - 1],
                 <<Event(probe, mac, MAC_TABLE_DELETED)>>, MAC_TABLE_DELETED)

\* mutant of mac_table_delete: the delete is counted in total_deletes and
\* active_entries is left as it was
mac_table_delete_keeps_active(e, mgr, st, mac, t) ==
    LET probe == lookup_probe(e, mac, 0) IN
    IF probe = -1
    THEN Outcome(e, mgr, st, <<>>, MAC_TABLE_NOT_FOUND)
    ELSE Outcome([e EXCEPT ![probe].state = SLOT_TOMBSTONE],
                 expiry_manager_delete(mgr, probe, t),
                 [st EXCEPT !.total_deletes = @ + 1],
                 <<Event(probe, mac, MAC_TABLE_DELETED)>>, MAC_TABLE_DELETED)

mac_table_delete(e, mgr, st, mac, t) ==
    LET probe == lookup_probe(e, mac, 0) IN
    IF probe = -1
    THEN Outcome(e, mgr, st, <<>>, MAC_TABLE_NOT_FOUND)
    ELSE Outcome([e EXCEPT ![probe].state = SLOT_TOMBSTONE],
                 expiry_manager_delete(mgr, probe, t),
                 [st EXCEPT !.total_deletes = @ + 1, !.active_entries = @ - 1],
                 <<Event(probe, mac, MAC_TABLE_DELETED)>>, MAC_TABLE_DELETED)

mac_table_get_by_index(e, index) ==
    IF index >= TableSize THEN [ret |-> MAC_TABLE_NOT_FOUND, out |-> NULL]
    ELSE IF e[index].state # SLOT_OCCUPIED THEN [ret |-> MAC_TABLE_NOT_FOUND, out |-> NULL]
    ELSE [ret |-> MAC_TABLE_OK, out |-> <<e[index]>>]

\* `index` in mac_table_evict_by_role and mac_table_clear is not the loop
\* variable (that is `i`): the only `index` in scope is the C library function
\* of <strings.h>, so the value passed on is that function's address, which
\* lies above every slot index of the table.
index_symbol == TableSize + 1

\* the loop of mac_table_evict_by_role (match_all = FALSE) and of
\* mac_table_clear (match_all = TRUE), from slot i on
RECURSIVE evict_loop(_, _, _, _, _)
evict_loop(o, role, match_all, i, t) ==
    IF i >= TableSize THEN o
    ELSE IF o.entries[i].state = SLOT_OCCUPIED /\ (match_all \/ o.entries[i].role = role)
    THEN evict_loop(
            Outcome([o.entries EXCEPT ![i].state = SLOT_TOMBSTONE],
                    expiry_manager_delete(o.mgr, index_symbol, t),
                    [o.stats EXCEPT !.total_deletes = @ + 1, !.active_entries = @ - 1],
                    Append(o.events, Event(index_symbol, o.entries[i].mac, MAC_TABLE_DELETED)),
                    o.ret + 1),
            role, match_all, i + 1, t)
    ELSE evict_loop(o, role, match_all, i + 1, t)

mac_table_evict_by_role(e, mgr, st, role, t) ==
    evict_loop(Outcome(e, mgr, st, <<>>, 0), role, FALSE, 0, t)

mac_table_clear(e, mgr, st, t) ==
    evict_loop(Outcome(e, mgr, st, <<>>, 0), 0, TRUE, 0, t)

\* mutant of mac_table_reset_stats: zeroes active_entries too
mac_table_reset_stats_all(st) ==
    [st EXCEPT !.total_inserts = 0, !.total_deletes = 0, !.total_expired = 0,
               !.active_entries = 0]

mac_table_reset_stats(st) ==
    [st EXCEPT !.total_inserts = 0, !.total_deletes = 0, !.total_expired = 0]

\* ------------------------------------------------------------------------
\* mac_table_expiry_manager.c: timer callback and remove-oldest
\* ------------------------------------------------------------------------
\* the while loop of expiry_timer_callback: pop while the root is due
\* mutant of expiry_drain: a popped heap entry expires its slot without the
\* test that the slot is still OCCUPIED with that expiry
RECURSIVE expiry_drain_unchecked(_, _)
expiry_drain_unchecked(o, t) ==
    IF Len(o.mgr.heap) > 0 /\ min_heap_peek(o.mgr.heap) <= t
    THEN LET slot_index == o.mgr.heap[1].slot_index
             m1 == [o.mgr EXCEPT !.heap = min_heap_pop(o.mgr.heap)]
         IN  expiry_drain_unchecked(
                Outcome([o.entries EXCEPT ![slot_index].state = SLOT_TOMBSTONE],
                        m1,
                        [o.stats EXCEPT !.total_expired = @ + 1,
                                        !.active_entries = @ - 1],
                        Append(o.events, Event(slot_index, o.entries[slot_index].mac,
                                               MAC_TABLE_TIMEOUT)),
                        o.ret),
                t)
    ELSE o

\* mutant of expiry_drain: an entry that expires at this very second stays
RECURSIVE expiry_drain_less_than(_, _)
expiry_drain_less_than(o, t) ==
    IF Len(o.mgr.heap) > 0 /\ min_heap_peek(o.mgr.heap) < t
    THEN LET slot_index == o.mgr.heap[1].slot_index
             expiry_time == o.mgr.heap[1].expiry_time
             m1 == [o.mgr EXCEPT !.heap = min_heap_pop(o.mgr.heap)]
         IN  IF /\ slot_index < TableSize
                /\ o.entries[slot_index].state = SLOT_OCCUPIED
                /\ o.entries[slot_index].timeout_duration = expiry_time
             THEN expiry_drain_less_than(
                    Outcome([o.entries EXCEPT ![slot_index].state = SLOT_TOMBSTONE],
                            m1,
                            [o.stats EXCEPT !.total_expired = @ + 1,
                                            !.active_entries = @ - 1],
                            Append(o.events, Event(slot_index, o.entries[slot_index].mac,
                                                   MAC_TABLE_TIMEOUT)),
                            o.ret),
                    t)
             ELSE expiry_drain_less_than([o EXCEPT !.mgr = m1], t)
    ELSE o

\* the while loop of expiry_timer_callback; expiry_drain_step is one pass of
\* it over the outcome so far, which the loop hands over as a value
RECURSIVE expiry_drain(_, _)
expiry_drain_step(o, t) ==
    IF Len(o.mgr.heap) > 0 /\ min_heap_peek(o.mgr.heap) <= t
    THEN LET slot_index == o.mgr.heap[1].slot_index
             expiry_time == o.mgr.heap[1].expiry_time
             m1 == [o.mgr EXCEPT !.heap = min_heap_pop(o.mgr.heap)]
         IN  IF /\ slot_index < TableSize
                /\ o.entries[slot_index].state = SLOT_OCCUPIED
                /\ o.entries[slot_index].timeout_duration = expiry_time
             THEN expiry_drain(
                    Outcome([o.entries EXCEPT ![slot_index].state = SLOT_TOMBSTONE],
                            m1,
                            [o.stats EXCEPT !.total_expired = @ + 1,
                                            !.active_entries = @ - 1],
                            Append(o.events, Event(slot_index, o.entries[slot_index].mac,
                                                   MAC_TABLE_TIMEOUT)),
                            o.ret),
                    t)
             ELSE expiry_drain([o EXCEPT !.mgr = m1], t)
    ELSE o

expiry_drain(o, t) == CHOOSE r \in {expiry_drain_step(v, t) : v \in {o}} : TRUE

\* expiry_timer_callback that leaves the timer stopped after the loop
expiry_timer_callback_no_rearm(e, mgr, st, t) ==
    expiry_drain(Outcome(e, timer_stop(mgr), st, <<>>, 0), t)

\* the callback runs when the one-shot timer has expired, which leaves the
\* timer inactive until the callback restarts it
expiry_timer_callback(e, mgr, st, t) ==
    LET o == expiry_drain(Outcome(e, timer_stop(mgr), st, <<>>, 0), t)
    IN  IF Len(o.mgr.heap) > 0
        THEN [o EXCEPT !.mgr = timer_arm(o.mgr, min_heap_peek(o.mgr.heap), t)]
        ELSE o

\* protected_roles is NULL or a non-empty array of roles, a sequence here
is_protected_role(role, protected_roles) ==
    IF protected_roles = NULL THEN FALSE ELSE role = protected_roles[1]

\* the for loop of mac_table_remove_oldest over the heap array: the slot of
\* the first evictable heap entry from C index i on, or -1
RECURSIVE remove_oldest_scan(_, _, _, _)
remove_oldest_scan(e, h, protected_roles, i) ==
    IF i >= Len(h) THEN -1
    ELSE LET index == h[i + 1].slot_index IN
         IF index >= TableSize THEN remove_oldest_scan(e, h, protected_roles, i + 1)
         ELSE IF e[index].state # SLOT_OCCUPIED
         THEN remove_oldest_scan(e, h, protected_roles, i + 1)
         ELSE IF is_protected_role(e[index].role, protected_roles)
         THEN remove_oldest_scan(e, h, protected_roles, i + 1)
         ELSE index

mac_table_remove_oldest(e, mgr, st, protected_roles, t) ==
    IF Len(mgr.heap) = 0 THEN Outcome(e, mgr, st, <<>>, FALSE)
    ELSE LET index == remove_oldest_scan(e, mgr.heap, protected_roles, 0) IN
         IF index = -1 THEN Outcome(e, mgr, st, <<>>, FALSE)
         ELSE Outcome([e EXCEPT ![index].state = SLOT_TOMBSTONE],
                      expiry_manager_delete(mgr, index, t),
                      [st EXCEPT !.total_deletes = @ + 1, !.active_entries = @ - 1],
                      <<Event(index, e[index].mac, MAC_TABLE_DELETED)>>, TRUE)

\* ------------------------------------------------------------------------
\* Text form of an address.  A C string is the sequence of its character
\* codes before the terminating '\0'; reading the position after the last
\* character gives the terminator, 0.
\* ------------------------------------------------------------------------
\* "0123456789abcdef"
hex_chars == <<48, 49, 50, 51, 52, 53, 54, 55, 56, 57, 97, 98, 99, 100, 101, 102>>

RECURSIVE mac_to_str_loop(_, _, _)
mac_to_str_loop(mac, i, str) ==
    IF i >= MAC_ADDR_LEN THEN str
    ELSE LET hi == hex_chars[((mac[i + 1] \div 16) % 16) + 1]
             lo == hex_chars[(mac[i + 1] % 16) + 1]
             two == Append(Append(str, hi), lo)
         IN  mac_to_str_loop(mac, i + 1,
                             IF i < MAC_ADDR_LEN - 1 THEN Append(two, 58) ELSE two)

mac_to_str(mac) == mac_to_str_loop(mac, 0, <<>>)

\* *ptr, with ptr counted from 0
CharAt(str, ptr) == IF ptr < Len(str) THEN str[ptr + 1] ELSE 0

\* the value of a hexadecimal digit, -1 for any other character
hex_digit(c) ==
    IF c >= 48 /\ c <= 57 THEN c - 48
    ELSE IF c >= 97 /\ c <= 102 THEN c - 97 + 10
    ELSE IF c >= 65 /\ c <= 70 THEN c - 65 + 10
    ELSE -1

\* str_to_mac accepting a well-formed prefix: the final test for the
\* terminator is left out
RECURSIVE str_to_mac_prefix_loop(_, _, _, _)
str_to_mac_prefix_loop(str, ptr, i, mac) ==
    IF i >= MAC_ADDR_LEN THEN [ret |-> TRUE, mac |-> mac]
    ELSE LET hi == hex_digit(CharAt(str, ptr))
             lo == hex_digit(CharAt(str, ptr + 1))
         IN  IF hi = -1 \/ lo = -1 THEN [ret |-> FALSE, mac |-> mac]
             ELSE IF i < MAC_ADDR_LEN - 1 /\ CharAt(str, ptr + 2) # 58
                  THEN [ret |-> FALSE, mac |-> [mac EXCEPT ![i + 1] = hi * 16 + lo]]
                  ELSE str_to_mac_prefix_loop(str, ptr + 3, i + 1,
                                              [mac EXCEPT ![i + 1] = hi * 16 + lo])
str_to_mac_prefix(str, mac) == str_to_mac_prefix_loop(str, 0, 0, mac)

\* the loop of str_to_mac from byte i with ptr at position ptr: [ret, mac],
\* mac being the caller's buffer as the call leaves it.  The high digit is
\* shifted into the upper four bits of the uint8_t and the low digit or-ed
\* into the lower four, which are zero.
RECURSIVE str_to_mac_loop(_, _, _, _)
str_to_mac_loop(str, ptr, i, mac) ==
    IF i >= MAC_ADDR_LEN
    THEN [ret |-> (i = MAC_ADDR_LEN /\ CharAt(str, ptr) = 0), mac |-> mac]
    ELSE LET hi == hex_digit(CharAt(str, ptr)) IN
         IF hi = -1 THEN [ret |-> FALSE, mac |-> mac]
         ELSE LET lo == hex_digit(CharAt(str, ptr + 1)) IN
              IF lo = -1 THEN [ret |-> FALSE, mac |-> mac]
              ELSE LET byte == ((hi * 16) % 256) + lo
                       written == [mac EXCEPT ![i + 1] = byte]
                   IN  IF i < MAC_ADDR_LEN - 1
                       THEN IF CharAt(str, ptr + 2) # 58
                            THEN [ret |-> FALSE, mac |-> written]
                            ELSE str_to_mac_loop(str, ptr + 3, i + 1, written)
                       ELSE str_to_mac_loop(str, ptr + 2, i + 1, written)

str_to_mac(str, mac) == str_to_mac_loop(str, 0, 0, mac)

\* ------------------------------------------------------------------------
\* Construction
\* ------------------------------------------------------------------------
\* the slot the loop of mac_table_init writes: EMPTY, no custom timeout, zero address
DeadSlotInit ==
    [mac |-> ZeroMac, timeout_duration |-> 0, state |-> SLOT_EMPTY, role |-> DEFAULT_ROLE]

\* The blocks mac_table_init and the functions it calls take from the
\* allocators: calloc for the statistics, pvPortMalloc for the manager, the
\* MinHeap header and its entries array, xTimerCreate for the timer.  Each of
\* them can fail; `fails` is the set of those that do.
InitAllocs == {"stats", "manager", "heap", "heap_entries", "timer"}

\* [ptr, held]: the pointer returned and the blocks still allocated
min_heap_create(capacity, fails) ==
    IF "heap" \in fails THEN [ptr |-> NULL, held |-> {}]
    ELSE IF "heap_entries" \in fails THEN [ptr |-> NULL, held |-> {}]
    ELSE [ptr |-> << <<>> >>, held |-> {"heap", "heap_entries"}]

expiry_manager_create(size, fails) ==
    IF "manager" \in fails THEN [ptr |-> NULL, held |-> {}]
    ELSE LET h == min_heap_create(size, fails) IN
         IF h.ptr = NULL THEN [ptr |-> NULL, held |-> {}]
         ELSE IF "timer" \in fails THEN [ptr |-> NULL, held |-> {}]
         ELSE [ptr |-> <<Manager(h.ptr[1], FALSE, 0)>>,
               held |-> {"manager", "timer"} \cup h.held]

\* the caller's mac_table_t before the call, no field set
NoTable ==
    [entries |-> NULL, size |-> 0, expiry_seconds |-> 0, on_event |-> NULL,
     expiry_manager |-> NULL, stats |-> NULL]

\* mac_table_init(table, entries, size, expiry_seconds, on_event): `table` and
\* `slots` are NULL or point to the caller's struct and array; the outcome is
\* the return value, the struct and the array as the call leaves them, and
\* the blocks that are still allocated when it returns
mac_table_init(table, slots, size, expiry_seconds, on_event, fails) ==
    IF table = NULL \/ slots = NULL \/ size = 0
    THEN [ret |-> FALSE, table |-> table, entries |-> slots, held |-> {}]
    ELSE LET t0 == [table[1] EXCEPT !.entries = slots, !.size = size,
                                    !.expiry_seconds = expiry_seconds,
                                    !.on_event = on_event,
                                    !.expiry_manager = NULL]
         IN  IF "stats" \in fails
             THEN [ret |-> FALSE, table |-> <<[t0 EXCEPT !.stats = NULL]>>,
                   entries |-> slots, held |-> {}]
             ELSE LET zeroed == [total_inserts |-> 0, total_deletes |-> 0,
                                 total_expired |-> 0, active_entries |-> 0]
                      t1 == [t0 EXCEPT !.stats = <<zeroed>>]
                      cleared == <<[i \in 0 .. (size - 1) |-> DeadSlotInit]>>
                      m == expiry_manager_create(size, fails)
                  IN  IF m.ptr = NULL
                      THEN [ret |-> FALSE, table |-> <<t1>>, entries |-> cleared,
                            held |-> {"stats"}]
                      ELSE [ret |-> TRUE,
                            table |-> <<[t1 EXCEPT !.expiry_manager = m.ptr]>>,
                            entries |-> cleared, held |-> {"stats"} \cup m.held]

\* ------------------------------------------------------------------------
\* The state machine
\* ------------------------------------------------------------------------
\* A slot that is not OCCUPIED keeps its old mac, timeout_duration and role
\* bytes in memory, and no function reads them: every read of these fields in
\* mac_table.c and mac_table_expiry_manager.c comes after a test for
\* state == SLOT_OCCUPIED.  The state variable `entries` therefore holds such
\* a slot by its state alone, with the fields mac_table_init gives it.
DeadSlot(state) ==
    [mac |-> ZeroMac, timeout_duration |-> 0, state |-> state, role |-> DEFAULT_ROLE]

Stored(e) ==
    [s \in Slots |-> IF e[s].state = SLOT_OCCUPIED THEN e[s] ELSE DeadSlot(e[s].state)]

\* the state after a successful mac_table_init on a freshly booted system:
\* every slot EMPTY with a zeroed address, calloc'ed statistics, an empty heap,
\* a created but not started timer, and the clock at the start of its range
\* the application task outside every table call, and the timer service task
\* outside the callback
AppIdle == [at |-> "idle", probe |-> 0]
TimerIdle == [at |-> "idle", clock |-> 0, slot_index |-> 0, expiry_time |-> 0]

Init ==
    /\ entries = [s \in Slots |-> DeadSlot(SLOT_EMPTY)]
    /\ heap = <<>>
    /\ timer_active = FALSE
    /\ timer_deadline = 0
    /\ stats = [total_inserts |-> 0, total_deletes |-> 0, total_expired |-> 0,
                active_entries |-> 0]
    /\ now = 0
    /\ app_pc = AppIdle
    /\ timer_pc = TimerIdle

mgr_now == Manager(heap, timer_active, timer_deadline)

\* install the outcome of an operation as the next state
Commit(o) ==
    /\ o.stats.total_inserts <= MaxCount
    /\ entries' = Stored(o.entries)
    /\ heap' = o.mgr.heap
    /\ timer_active' = o.mgr.timer_active
    /\ timer_deadline' = o.mgr.timer_deadline
    /\ stats' = o.stats
    /\ UNCHANGED <<now, app_pc, timer_pc>>

\* the insert options the application passes to mac_table_insert_ex: a custom
\* duration, a role other than the default, or both (mac_table_insert passes
\* NULL, which gives the default duration and the default role)
OptsSet ==
    {<<[has_custom_duration |-> d >= 0, custom_duration |-> IF d >= 0 THEN d ELSE 0,
        has_role |-> r > 0, role |-> r]>> :
        d \in -1 .. MaxCustomDuration, r \in Roles}
    \ {<<[has_custom_duration |-> FALSE, custom_duration |-> 0,
          has_role |-> FALSE, role |-> 0]>>}

\* the protected_roles arguments the application passes: NULL, one role, or
\* an array of two different roles
ProtectedSet ==
    {NULL} \cup {<<r>> : r \in Roles}
           \cup {pr \in {<<r, q>> : r, q \in Roles} : pr[1] # pr[2]}

Insert(mac) ==
    Commit(mac_table_insert(entries, mgr_now, stats, mac, now))

InsertEx(mac, opts) ==
    Commit(mac_table_insert_ex(entries, mgr_now, stats, mac, opts, now))

\* mac_table_exists and mac_table_get_by_index take a const table: they
\* return a value and write nothing
Exists(mac) ==
    /\ mac_table_exists(entries, mac) \in {MAC_TABLE_OK, MAC_TABLE_NOT_FOUND}
    /\ UNCHANGED vars

GetByIndex(index) ==
    /\ mac_table_get_by_index(entries, index).ret \in {MAC_TABLE_OK, MAC_TABLE_NOT_FOUND}
    /\ UNCHANGED vars

Delete(mac) ==
    Commit(mac_table_delete(entries, mgr_now, stats, mac, now))

RemoveOldest(protected_roles) ==
    Commit(mac_table_remove_oldest(entries, mgr_now, stats, protected_roles, now))

EvictByRole(role) ==
    Commit(mac_table_evict_by_role(entries, mgr_now, stats, role, now))

Clear ==
    Commit(mac_table_clear(entries, mgr_now, stats, now))

ResetStats ==
    /\ stats' = mac_table_reset_stats(stats)
    /\ UNCHANGED <<entries, heap, timer_active, timer_deadline, now, app_pc, timer_pc>>

\* the FreeRTOS timer service runs the callback of an armed timer once the
\* clock has reached its deadline
TimerFire ==
    /\ timer_active
    /\ now >= timer_deadline
    /\ Commit(expiry_timer_callback(entries, mgr_now, stats, now))

\* the clock advances by one second
Tick ==
    /\ now < MaxTime
    /\ now' = now + 1
    /\ UNCHANGED <<entries, heap, timer_active, timer_deadline, stats, app_pc, timer_pc>>

\* the operations on addresses M, with insert options O, protected_roles
\* arguments P and evicted roles R
Ops(M, O, P, R) ==
    \/ \E mac \in M : Insert(mac)
    \/ \E mac \in M, opts \in O : InsertEx(mac, opts)
    \/ \E mac \in M : Exists(mac)
    \/ \E mac \in M : Delete(mac)
    \/ \E index \in 0 .. TableSize : GetByIndex(index)
    \/ \E protected_roles \in P : RemoveOldest(protected_roles)
    \/ \E role \in R : EvictByRole(role)
    \/ Clear
    \/ TimerFire
    \/ Tick

\* Spec: all four addresses, every entry in the default role.
\* mac_table_reset_stats is left to SpecStats: it writes only the three
\* lifetime counters, which no operation reads.
DefaultRoleOpts == {o \in OptsSet : ~o[1].has_role}
Next == Ops(Macs, DefaultRoleOpts, {NULL, <<DEFAULT_ROLE>>}, {DEFAULT_ROLE})
Spec == Init /\ [][Next]_vars

\* SpecStats: the two colliding addresses, with mac_table_reset_stats
StatsMacs == {test_mac_1, test_mac_4}
NextStats ==
    \/ Ops(StatsMacs, DefaultRoleOpts, {NULL, <<DEFAULT_ROLE>>}, {DEFAULT_ROLE})
    \/ ResetStats
SpecStats == Init /\ [][NextStats]_vars

\* the application using roles: inserts with every option value, evictions by
\* every role and remove_oldest with every array of protected roles
RoleMacs == {test_mac_1, test_mac_3, test_mac_4}
NextRoles == Ops(RoleMacs, OptsSet, ProtectedSet, Roles)
SpecRoles == Init /\ [][NextRoles]_vars

\* the application giving its entries lifetimes of different lengths, all of
\* at least one second, so that later inserts can expire before earlier ones
TimerOpts ==
    {<<[has_custom_duration |-> TRUE, custom_duration |-> d,
        has_role |-> FALSE, role |-> 0]>> : d \in 1 .. MaxTimerDuration}
NextTimer ==
    \/ \E mac \in RoleMacs : Insert(mac)
    \/ \E mac \in RoleMacs, opts \in TimerOpts : InsertEx(mac, opts)
    \/ \E mac \in RoleMacs : Delete(mac)
    \/ TimerFire
    \/ Tick
SpecTimer == Init /\ [][NextTimer]_vars

\* the table left to the expiry timer: the application only inserts keys that
\* are absent, so no entry is refreshed, deleted or evicted, and only entries
\* that expire while the clock still runs
LiveInsert(mac, opts) ==
    /\ mac_table_exists(entries, mac) = MAC_TABLE_NOT_FOUND
    /\ insert_timeout(opts, now) <= MaxTime
    /\ InsertEx(mac, opts)

NextLive ==
    \/ \E mac \in Macs, opts \in {NULL} \cup DefaultRoleOpts : LiveInsert(mac, opts)
    \/ TimerFire
    \/ Tick

\* the clock keeps advancing and an expired timer runs its callback
LiveSpec == Init /\ [][NextLive]_vars /\ WF_vars(Tick) /\ WF_vars(TimerFire)

\* ------------------------------------------------------------------------
\* The two tasks, statement by statement
\* ------------------------------------------------------------------------
\* The application task calls the table functions; the FreeRTOS timer service
\* task runs expiry_timer_callback.  Neither file takes a lock, so the steps
\* of a call and the steps of the callback interleave.  mac_table_delete and
\* the callback are taken apart into their statements here; the inserts that
\* fill the table run in one step.

\* mac_table_delete up to the call of expiry_manager_delete: the probe loop
\* found the key, the slot is marked and the statistics are updated
DeleteBegin(mac) ==
    LET probe == lookup_probe(entries, mac, 0) IN
    /\ app_pc.at = "idle"
    /\ probe # -1
    /\ entries' = Stored([entries EXCEPT ![probe].state = SLOT_TOMBSTONE])
    /\ stats' = [stats EXCEPT !.total_deletes = @ + 1, !.active_entries = @ - 1]
    /\ app_pc' = [at |-> "delete", probe |-> probe]
    /\ UNCHANGED <<heap, timer_active, timer_deadline, now, timer_pc>>

\* the rest of mac_table_delete: expiry_manager_delete and the return
DeleteEnd ==
    LET m == expiry_manager_delete(mgr_now, app_pc.probe, now) IN
    /\ app_pc.at = "delete"
    /\ heap' = m.heap
    /\ timer_active' = m.timer_active
    /\ timer_deadline' = m.timer_deadline
    /\ app_pc' = AppIdle
    /\ UNCHANGED <<entries, stats, now, timer_pc>>

\* the application task inserts between two table calls
RaceInsert(mac) ==
    /\ app_pc.at = "idle"
    /\ Insert(mac)

\* the timer has expired: the timer service enters the callback, which reads
\* the clock
CallbackStart ==
    /\ timer_pc.at = "idle"
    /\ timer_active
    /\ now >= timer_deadline
    /\ timer_active' = FALSE
    /\ timer_deadline' = 0
    /\ timer_pc' = [TimerIdle EXCEPT !.at = "loop", !.clock = now]
    /\ UNCHANGED <<entries, heap, stats, now, app_pc>>

\* the loop condition holds and min_heap_pop takes the root
CallbackPop ==
    /\ timer_pc.at = "loop"
    /\ Len(heap) > 0
    /\ min_heap_peek(heap) <= timer_pc.clock
    /\ heap' = min_heap_pop(heap)
    /\ timer_pc' = [timer_pc EXCEPT !.at = "popped",
                                    !.slot_index = heap[1].slot_index,
                                    !.expiry_time = heap[1].expiry_time]
    /\ UNCHANGED <<entries, timer_active, timer_deadline, stats, now, app_pc>>

\* the popped entry is validated against its slot, and the slot is expired
CallbackPurge ==
    /\ timer_pc.at = "popped"
    /\ IF /\ timer_pc.slot_index < TableSize
          /\ entries[timer_pc.slot_index].state = SLOT_OCCUPIED
          /\ entries[timer_pc.slot_index].timeout_duration = timer_pc.expiry_time
       THEN /\ stats' = [stats EXCEPT !.total_expired = @ + 1,
                                      !.active_entries = @ - 1]
            /\ entries' = Stored([entries EXCEPT
                                     ![timer_pc.slot_index].state = SLOT_TOMBSTONE])
       ELSE UNCHANGED <<entries, stats>>
    /\ timer_pc' = [timer_pc EXCEPT !.at = "loop"]
    /\ UNCHANGED <<heap, timer_active, timer_deadline, now, app_pc>>

\* the loop is left; the timer is started again if the heap is not empty
CallbackRearm ==
    /\ timer_pc.at = "loop"
    /\ ~(Len(heap) > 0 /\ min_heap_peek(heap) <= timer_pc.clock)
    /\ IF Len(heap) > 0
       THEN LET m == timer_arm(mgr_now, min_heap_peek(heap), now) IN
            /\ timer_active' = m.timer_active
            /\ timer_deadline' = m.timer_deadline
       ELSE UNCHANGED <<timer_active, timer_deadline>>
    /\ timer_pc' = TimerIdle
    /\ UNCHANGED <<entries, heap, stats, now, app_pc>>

NextRace ==
    \/ \E mac \in Macs : RaceInsert(mac)
    \/ \E mac \in Macs : DeleteBegin(mac)
    \/ DeleteEnd
    \/ CallbackStart
    \/ CallbackPop
    \/ CallbackPurge
    \/ CallbackRearm
    \/ Tick

SpecRace == Init /\ [][NextRace]_vars

\* The table from before its construction.  The application task starts at
\* its call of mac_table_init, with the arguments and the allocations that
\* will fail drawn here; the caller's struct and array are fresh storage.
InitTables == {NULL, <<NoTable>>}
InitSlots == {NULL, <<[s \in Slots |-> DeadSlotInit]>>}
InitSizes == {0, TableSize}
InitFails == SUBSET InitAllocs
InitBoot ==
    /\ Init!1 /\ Init!2 /\ Init!3 /\ Init!4 /\ Init!5 /\ Init!6 /\ Init!8
    /\ app_pc \in [at : {"init"}, table : InitTables, slots : InitSlots,
                   size : InitSizes, fails : InitFails]

\* the call of mac_table_init: on success the table is the one the call
\* built and the task goes on to use it; on failure the task keeps what the
\* call left behind
Construct ==
    /\ app_pc.at = "init"
    /\ LET o == mac_table_init(app_pc.table, app_pc.slots, app_pc.size,
                               ExpirySeconds, <<"on_event">>, app_pc.fails)
       IN  IF o.ret
           THEN /\ entries' = o.entries[1]
                /\ stats' = o.table[1].stats[1]
                /\ heap' = o.table[1].expiry_manager[1].heap
                /\ timer_active' = o.table[1].expiry_manager[1].timer_active
                /\ timer_deadline' = o.table[1].expiry_manager[1].timer_deadline
                /\ app_pc' = AppIdle
           ELSE /\ app_pc' = [at |-> "init_failed", table |-> o.table, held |-> o.held]
                /\ UNCHANGED <<entries, stats, heap, timer_active, timer_deadline>>
    /\ UNCHANGED <<now, timer_pc>>

NextInit ==
    \/ Construct
    \/ app_pc = AppIdle /\ \E mac \in RoleMacs : Insert(mac)
    \/ app_pc = AppIdle /\ \E mac \in RoleMacs : Delete(mac)
    \/ app_pc = AppIdle /\ TimerFire
    \/ app_pc = AppIdle /\ Tick
SpecInit == InitBoot /\ [][NextInit]_vars

\* The application converting addresses to text and back: it formats a key,
\* may truncate the text, append a character to it or overwrite one of its
\* characters, and parses the result into a zeroed buffer.
TextKeys ==
    Macs \cup {ZeroMac, <<255, 255, 255, 255, 255, 255>>,
               <<1, 35, 69, 103, 137, 171>>, <<205, 239, 16, 50, 84, 118>>}
\* characters around the three ranges of digits: / 0 9 : @ A F G ` a f g,
\* a blank and '-'
TextChars == {47, 48, 57, 58, 64, 65, 70, 71, 96, 97, 102, 103, 32, 45}
TextBoot ==
    /\ Init!1 /\ Init!2 /\ Init!3 /\ Init!4 /\ Init!5 /\ Init!6 /\ Init!8
    /\ app_pc \in [at : {"key"}, mac : TextKeys]

TextIdle == UNCHANGED <<entries, heap, timer_active, timer_deadline, stats, now, timer_pc>>

Encode ==
    /\ app_pc.at = "key"
    /\ app_pc' = [at |-> "encoded", mac |-> app_pc.mac, str |-> mac_to_str(app_pc.mac)]
    /\ TextIdle
Truncate(n) ==
    /\ app_pc.at = "encoded"
    /\ n < Len(app_pc.str)
    /\ app_pc' = [at |-> "text", str |-> SubSeq(app_pc.str, 1, n)]
    /\ TextIdle
AppendChar(c) ==
    /\ app_pc.at = "encoded"
    /\ app_pc' = [at |-> "text", str |-> Append(app_pc.str, c)]
    /\ TextIdle
ReplaceChar(p, c) ==
    /\ app_pc.at = "encoded"
    /\ p \in 1 .. Len(app_pc.str)
    /\ app_pc.str[p] # c
    /\ app_pc' = [at |-> "text", str |-> [app_pc.str EXCEPT ![p] = c]]
    /\ TextIdle
Decode ==
    /\ app_pc.at \in {"encoded", "text"}
    /\ LET o == str_to_mac(app_pc.str, ZeroMac)
       IN  app_pc' = [at |-> "decoded", str |-> app_pc.str, ret |-> o.ret, mac |-> o.mac]
    /\ TextIdle

NextText ==
    \/ Encode
    \/ \E n \in 0 .. (3 * MAC_ADDR_LEN) : Truncate(n)
    \/ \E c \in TextChars : AppendChar(c)
    \/ \E p \in 1 .. (3 * MAC_ADDR_LEN), c \in TextChars : ReplaceChar(p, c)
    \/ Decode
SpecText == TextBoot /\ [][NextText]_vars

\* The expiry queue on its own: a heap of capacity HeapCapacity under every
\* sequence of upserts (remove the slot's entry, insert it with its new
\* expiry_time, as expiry_manager_add_or_update does), removals by slot and
\* pops of the minimum.
HeapSlots == 0 .. (HeapCapacity - 1)
HeapTimes == 0 .. MaxHeapTime
HeapIdle ==
    UNCHANGED <<entries, timer_active, timer_deadline, stats, now, app_pc, timer_pc>>

HeapUpsert(slot_index, expiry_time) ==
    /\ heap' = min_heap_insert_capacity(min_heap_remove(heap, slot_index),
                                        HeapCapacity, slot_index, expiry_time)
    /\ HeapIdle
HeapRemove(slot_index) ==
    /\ heap_find(heap, slot_index) # -1
    /\ heap' = min_heap_remove(heap, slot_index)
    /\ HeapIdle
HeapPop ==
    /\ Len(heap) > 0
    /\ heap' = min_heap_pop(heap)
    /\ HeapIdle

NextHeap ==
    \/ \E slot_index \in HeapSlots, expiry_time \in HeapTimes :
          HeapUpsert(slot_index, expiry_time)
    \/ \E slot_index \in HeapSlots : HeapRemove(slot_index)
    \/ HeapPop
SpecHeap == Init /\ [][NextHeap]_vars

\* The table as the event sink sees it.  on_event runs inside the call that
\* triggers it; the calls of the application and the callback run one at a
\* time here, and each stops at its call of on_event with the table as the
\* statements before that call have left it.
\* the application task inside on_event, called with the event ev
AppSink(ev) ==
    [at |-> "sink", probe |-> ev.slot_index, mac |-> ev.mac, status |-> ev.status]

\* a call whose statements all come before its one call of on_event
\* (mac_table_insert, mac_table_delete, mac_table_remove_oldest)
SinkCall(o) ==
    /\ app_pc = AppIdle
    /\ timer_pc = TimerIdle
    /\ Len(o.events) = 1
    /\ o.stats.total_inserts <= MaxCount
    /\ entries' = Stored(o.entries)
    /\ heap' = o.mgr.heap
    /\ timer_active' = o.mgr.timer_active
    /\ timer_deadline' = o.mgr.timer_deadline
    /\ stats' = o.stats
    /\ app_pc' = AppSink(o.events[1])
    /\ UNCHANGED <<now, timer_pc>>

SinkInsert(mac) == SinkCall(mac_table_insert(entries, mgr_now, stats, mac, now))
SinkDelete(mac) == SinkCall(mac_table_delete(entries, mgr_now, stats, mac, now))
SinkRemoveOldest ==
    SinkCall(mac_table_remove_oldest(entries, mgr_now, stats, NULL, now))

\* on_event returns to the application's call, which returns
SinkReturn ==
    /\ app_pc.at = "sink"
    /\ app_pc' = AppIdle
    /\ UNCHANGED <<entries, heap, timer_active, timer_deadline, stats, now, timer_pc>>

\* the popped entry is validated against its slot; if it matches, the
\* counters are updated and on_event is called
CallbackNotify ==
    /\ timer_pc.at = "popped"
    /\ IF /\ timer_pc.slot_index < TableSize
          /\ entries[timer_pc.slot_index].state = SLOT_OCCUPIED
          /\ entries[timer_pc.slot_index].timeout_duration = timer_pc.expiry_time
       THEN /\ stats' = [stats EXCEPT !.total_expired = @ + 1,
                                      !.active_entries = @ - 1]
            /\ timer_pc' = [timer_pc EXCEPT !.at = "sink"]
       ELSE /\ UNCHANGED stats
            /\ timer_pc' = [timer_pc EXCEPT !.at = "loop"]
    /\ UNCHANGED <<entries, heap, timer_active, timer_deadline, now, app_pc>>

\* on_event has returned: the slot is marked, and the loop goes on
CallbackMark ==
    /\ timer_pc.at = "sink"
    /\ entries' = Stored([entries EXCEPT ![timer_pc.slot_index].state = SLOT_TOMBSTONE])
    /\ timer_pc' = [timer_pc EXCEPT !.at = "loop"]
    /\ UNCHANGED <<heap, timer_active, timer_deadline, stats, now, app_pc>>

NextSink ==
    \/ \E mac \in RoleMacs : SinkInsert(mac)
    \/ \E mac \in RoleMacs : SinkDelete(mac)
    \/ SinkRemoveOldest
    \/ SinkReturn
    \/ app_pc = AppIdle /\ CallbackStart
    \/ CallbackPop
    \/ CallbackNotify
    \/ CallbackMark
    \/ CallbackRearm
    \/ app_pc = AppIdle /\ timer_pc = TimerIdle /\ Tick
SpecSink == Init /\ [][NextSink]_vars

\* ========================================================================
\* Properties
\* ========================================================================
Occupied(e) == {s \in Slots : e[s].state = SLOT_OCCUPIED}
Present(e, mac) == \E s \in Occupied(e) : e[s].mac = mac
SlotOf(e, mac) == CHOOSE s \in Occupied(e) : e[s].mac = mac
\* the i-th slot (i = 0, 1, ...) of the probe sequence of mac
ProbeSlot(mac, i) == (mac_hash(mac, TableSize) + i) % TableSize
\* how many probes lead from the start index of mac to slot s
ProbeDistance(mac, s) == (s + TableSize - mac_hash(mac, TableSize)) % TableSize
\* every argument the application can pass for opts
AnyOpts == {NULL} \cup OptsSet
\* the heap entries of slot s, by their position in the heap
HeapPositions(h, s) == {i \in 1 .. Len(h) : h[i].slot_index = s}
\* the heap entries of all slots but s, as a set of (slot, expiry) records
HeapOthers(h, s) == {h[i] : i \in {j \in 1 .. Len(h) : h[j].slot_index # s}}

\* C1: no two OCCUPIED slots ever hold the same 6-byte address.
C1_UniqueAddress ==
    \A s1, s2 \in Occupied(entries) : entries[s1].mac = entries[s2].mac => s1 = s2

\* C1 witness: two colliding addresses are both stored, one of them pushed
\* past its start index, after a slot had been vacated.
C1_Witness ==
    /\ Present(entries, test_mac_1) /\ Present(entries, test_mac_4)
    /\ \E s \in Slots : entries[s].state = SLOT_TOMBSTONE

\* C2: the slot indices held in the expiry queue are exactly the OCCUPIED
\* slots, and every queue entry carries its slot's current expiry.
C2_QueueMatchesTable ==
    /\ {heap[i].slot_index : i \in 1 .. Len(heap)} = Occupied(entries)
    /\ \A i \in 1 .. Len(heap) :
          heap[i].slot_index \in Occupied(entries)
          => heap[i].expiry_time = entries[heap[i].slot_index].timeout_duration

C4_ExistsIffPresent ==
    /\ \A mac \in Macs :
          (mac_table_exists(entries, mac) = MAC_TABLE_OK) <=> Present(entries, mac)
    /\ \A s \in Occupied(entries) :
          \A i \in 0 .. ProbeDistance(entries[s].mac, s) :
              entries[ProbeSlot(entries[s].mac, i)].state # SLOT_EMPTY

\* C4 witness: a stored address is found although the slot at its start
\* index has been vacated.
C4_Witness ==
    \E mac \in Macs :
        /\ Present(entries, mac)
        /\ entries[ProbeSlot(mac, 0)].state = SLOT_TOMBSTONE
        /\ mac_table_exists(entries, mac) = MAC_TABLE_OK

\* C5: inserting an absent key returns Full exactly when every slot is
\* OCCUPIED; a Full insert changes no slot, queue entry or counter and emits
\* exactly one Full event.
C5_FullIffAllOccupied ==
    \A mac \in Macs, opts \in AnyOpts :
        ~Present(entries, mac) =>
            LET o == mac_table_insert_ex(entries, mgr_now, stats, mac, opts, now) IN
            /\ (o.ret = MAC_TABLE_FULL) <=> (Occupied(entries) = Slots)
            /\ o.ret = MAC_TABLE_FULL =>
                  /\ o.entries = entries
                  /\ o.mgr = mgr_now
                  /\ o.stats = stats
                  /\ o.events = <<Event(-1, mac, MAC_TABLE_FULL)>>

\* C5 witness: the table is full and an absent key is refused.
C5_Witness ==
    /\ Occupied(entries) = Slots
    /\ \E mac \in Macs :
          /\ ~Present(entries, mac)
          /\ mac_table_insert(entries, mgr_now, stats, mac, now).ret = MAC_TABLE_FULL

\* the first slot in the probe sequence of mac that is in the given state
FirstInProbe(e, mac, state) ==
    LET hits == {i \in 0 .. (TableSize - 1) : e[ProbeSlot(mac, i)].state = state}
    IN  ProbeSlot(mac, CHOOSE i \in hits : \A j \in hits : i <= j)

\* the slot an insert of the absent key mac has to claim
ClaimedSlot(e, mac) ==
    IF \E s \in Slots : e[s].state = SLOT_EMPTY
    THEN FirstInProbe(e, mac, SLOT_EMPTY)
    ELSE FirstInProbe(e, mac, SLOT_TOMBSTONE)

\* C6: an absent key goes into the first EMPTY slot of its probe sequence if
\* the table has an EMPTY slot, else into the first TOMBSTONE; after a full
\* table lost one key, the new key takes the vacated slot.
C6_ClaimedSlot ==
    \A mac \in Macs, opts \in AnyOpts :
        (~Present(entries, mac) /\ Occupied(entries) # Slots) =>
            LET o == mac_table_insert_ex(entries, mgr_now, stats, mac, opts, now)
                c == ClaimedSlot(entries, mac)
            IN  /\ o.ret = MAC_TABLE_INSERTED
                /\ o.entries[c].state = SLOT_OCCUPIED
                /\ o.entries[c].mac = mac
                /\ \A s \in Slots \ {c} : o.entries[s] = entries[s]

\* C6 witness: every slot but one is OCCUPIED, that one is a TOMBSTONE, and a
\* new key is inserted into it.
C6_Witness ==
    \E c \in Slots, mac \in Macs :
        /\ entries[c].state = SLOT_TOMBSTONE
        /\ Occupied(entries) = Slots \ {c}
        /\ ~Present(entries, mac)
        /\ LET o == mac_table_insert(entries, mgr_now, stats, mac, now) IN
           o.ret = MAC_TABLE_INSERTED /\ o.entries[c].mac = mac

\* the expiry an insert at time t with these options has to give the entry
NewExpiry(opts, t) ==
    IF opts # NULL /\ opts[1].has_custom_duration
    THEN t + opts[1].custom_duration
    ELSE t + ExpirySeconds

\* C7: inserting a present key returns Updated, keeps the entry in its slot,
\* sets its expiry to now + ttl, replaces the slot's queue entry without a
\* duplicate, emits exactly one Updated event and leaves the counters and
\* every other slot unchanged.
C7_UpdateInPlace ==
    \A mac \in Macs, opts \in AnyOpts :
        Present(entries, mac) =>
            LET o == mac_table_insert_ex(entries, mgr_now, stats, mac, opts, now)
                s == SlotOf(entries, mac)
            IN  /\ o.ret = MAC_TABLE_UPDATED
                /\ o.entries[s].state = SLOT_OCCUPIED
                /\ o.entries[s].mac = mac
                /\ o.entries[s].timeout_duration = NewExpiry(opts, now)
                /\ \A r \in Slots \ {s} : o.entries[r] = entries[r]
                /\ Cardinality(HeapPositions(o.mgr.heap, s)) = 1
                /\ \A i \in HeapPositions(o.mgr.heap, s) :
                      o.mgr.heap[i].expiry_time = NewExpiry(opts, now)
                /\ Len(o.mgr.heap) = Len(heap)
                /\ HeapOthers(o.mgr.heap, s) = HeapOthers(heap, s)
                /\ o.events = <<Event(s, mac, MAC_TABLE_UPDATED)>>
                /\ o.stats = stats

\* C7 witness: a stored key is inserted again at a later time, which moves
\* its expiry.
C7_Witness ==
    \E mac \in Macs :
        /\ Present(entries, mac)
        /\ LET o == mac_table_insert(entries, mgr_now, stats, mac, now)
               s == SlotOf(entries, mac)
           IN  /\ o.ret = MAC_TABLE_UPDATED
               /\ o.entries[s].timeout_duration > entries[s].timeout_duration
               /\ Len(heap) >= 2

\* C8: delete of a present key returns Deleted, makes its slot a TOMBSTONE,
\* takes one off active_entries, adds one to total_deletes, removes exactly
\* that slot's queue entry and emits one Deleted event, and exists then
\* answers NotFound; delete of an absent key returns NotFound and changes
\* nothing.
C8_Delete ==
    \A mac \in Macs :
        LET o == mac_table_delete(entries, mgr_now, stats, mac, now) IN
        IF Present(entries, mac)
        THEN LET s == SlotOf(entries, mac) IN
             /\ o.ret = MAC_TABLE_DELETED
             /\ o.entries[s].state = SLOT_TOMBSTONE
             /\ \A r \in Slots \ {s} : o.entries[r] = entries[r]
             /\ o.stats = [stats EXCEPT !.active_entries = @ - 1,
                                        !.total_deletes = @ + 1]
             /\ HeapPositions(o.mgr.heap, s) = {}
             /\ Len(o.mgr.heap) = Len(heap) - 1
             /\ HeapOthers(o.mgr.heap, s) = HeapOthers(heap, s)
             /\ o.events = <<Event(s, mac, MAC_TABLE_DELETED)>>
             /\ mac_table_exists(o.entries, mac) = MAC_TABLE_NOT_FOUND
        ELSE /\ o.ret = MAC_TABLE_NOT_FOUND
             /\ o.entries = entries
             /\ o.mgr = mgr_now
             /\ o.stats = stats
             /\ o.events = <<>>

\* C8 witness: of two colliding keys the one at the start index is deleted
\* while the other stays, and a third key is absent.
C8_Witness ==
    /\ Present(entries, test_mac_1) /\ Present(entries, test_mac_4)
    /\ ~Present(entries, test_mac_2)
    /\ \E mac \in {test_mac_1, test_mac_4} :
          /\ SlotOf(entries, mac) = ProbeSlot(mac, 0)
          /\ mac_table_delete(entries, mgr_now, stats, mac, now).ret = MAC_TABLE_DELETED
    /\ mac_table_delete(entries, mgr_now, stats, test_mac_2, now).ret = MAC_TABLE_NOT_FOUND

\* the timer service runs the callback once the armed timer has expired
TimerDue == timer_active /\ now >= timer_deadline
\* the OCCUPIED slots whose expiry has passed
DueSlots == {s \in Occupied(entries) : entries[s].timeout_duration <= now}

\* C9: when the timer fires, every OCCUPIED entry with expiry <= now becomes
\* a TOMBSTONE with exactly one Timeout event each, total_expired grows and
\* active_entries shrinks by their number, and the entries with expiry > now
\* are untouched.
C9_TimerFire ==
    TimerDue =>
        LET o == expiry_timer_callback(entries, mgr_now, stats, now) IN
        /\ \A s \in DueSlots : o.entries[s].state = SLOT_TOMBSTONE
        /\ \A s \in Slots \ DueSlots : o.entries[s] = entries[s]
        /\ Len(o.events) = Cardinality(DueSlots)
        /\ \A s \in DueSlots :
              Cardinality({i \in 1 .. Len(o.events) :
                  o.events[i] = Event(s, entries[s].mac, MAC_TABLE_TIMEOUT)}) = 1
        /\ o.stats = [stats EXCEPT
                         !.total_expired = @ + Cardinality(DueSlots),
                         !.active_entries = @ - Cardinality(DueSlots)]

\* C9 witness: the timer fires while two entries are due and a third is not.
C9_Witness ==
    /\ TimerDue
    /\ Cardinality(DueSlots) = 2
    /\ Cardinality(Occupied(entries)) = 3
    /\ Len(expiry_timer_callback(entries, mgr_now, stats, now).events) = 2

\* C10: every entry that is inserted and then left alone by the application
\* is eventually turned into a TOMBSTONE by the expiry timer.
C10_EventuallyExpired ==
    \A s \in Slots :
        (entries[s].state = SLOT_OCCUPIED) ~> (entries[s].state = SLOT_TOMBSTONE)

\* C11: no entry is expired early: every Timeout event of a timer fire is for
\* a slot that is OCCUPIED with an expiry <= the clock of that fire, and
\* total_expired grows by the number of these events; an entry whose expiry
\* a refresh moved past the clock is not expired at the old time.
C11_NoEarlyExpiry ==
    TimerDue =>
        LET o == expiry_timer_callback(entries, mgr_now, stats, now) IN
        /\ \A i \in 1 .. Len(o.events) :
              /\ o.events[i].status = MAC_TABLE_TIMEOUT
              /\ o.events[i].slot_index \in Occupied(entries)
              /\ entries[o.events[i].slot_index].timeout_duration <= now
              /\ o.events[i].mac = entries[o.events[i].slot_index].mac
        /\ o.stats.total_expired = stats.total_expired + Len(o.events)
        /\ \A s \in Occupied(entries) :
              entries[s].timeout_duration > now => o.entries[s] = entries[s]

\* C11 witness: the timer fires at the deadline it was armed for, after one
\* entry was refreshed to a later expiry; that entry stays while another
\* one expires.
C11_Witness ==
    /\ TimerDue
    /\ \E s \in Occupied(entries) :
          /\ entries[s].timeout_duration > now
          /\ timer_deadline < entries[s].timeout_duration
          /\ LET o == expiry_timer_callback(entries, mgr_now, stats, now) IN
             o.entries[s].state = SLOT_OCCUPIED /\ Len(o.events) = 1

\* role is one of the roles the caller listed in protected_roles
RoleListed(role, protected_roles) ==
    \E i \in 1 .. Len(protected_roles) : protected_roles[i] = role
\* the OCCUPIED slots remove_oldest may evict
Evictable(e, protected_roles) ==
    {s \in Occupied(e) : ~RoleListed(e[s].role, protected_roles)}
\* the slots an operation turned from OCCUPIED into TOMBSTONE
Vacated(e, o) == {s \in Occupied(e) : o.entries[s].state = SLOT_TOMBSTONE}
\* every heap entry belongs to an OCCUPIED slot
NoStaleHeapEntry == \A i \in 1 .. Len(heap) : heap[i].slot_index \in Occupied(entries)

\* C12: remove_oldest evicts the one OCCUPIED entry with the smallest expiry
\* among the entries whose role is not protected, wherever that entry sits
\* in the heap (stated for no protected role and for one protected role, on
\* a heap without entries of vacated slots).
C12_EvictsOldest ==
    \A protected_roles \in {NULL} \cup {<<r>> : r \in Roles} :
        LET o == mac_table_remove_oldest(entries, mgr_now, stats, protected_roles, now)
            cand == Evictable(entries, protected_roles)
        IN  (NoStaleHeapEntry /\ cand # {}) =>
                /\ Cardinality(Vacated(entries, o)) = 1
                /\ \A s \in Vacated(entries, o) :
                      /\ s \in cand
                      /\ \A r \in cand :
                            entries[s].timeout_duration <= entries[r].timeout_duration

\* C13: remove_oldest never evicts an entry whose role is among the
\* protected roles, whether the caller lists one role or several.
C13_ProtectedRolesKept ==
    \A protected_roles \in ProtectedSet :
        LET o == mac_table_remove_oldest(entries, mgr_now, stats, protected_roles, now)
        IN  \A s \in Vacated(entries, o) :
                ~RoleListed(entries[s].role, protected_roles)

\* C14: remove_oldest returns false and changes no slot, queue entry or
\* counter and emits no event when the queue is empty or every OCCUPIED
\* entry has a protected role; when it returns true, exactly one entry was
\* tombstoned, total_deletes rose by 1, active_entries fell by 1 and one
\* Deleted event was emitted.
C14_RemoveOldestResult ==
    \A protected_roles \in ProtectedSet :
        LET o == mac_table_remove_oldest(entries, mgr_now, stats, protected_roles, now)
        IN  /\ (Len(heap) = 0 \/ Evictable(entries, protected_roles) = {}) =>
                  /\ o.ret = FALSE
                  /\ o.entries = entries
                  /\ o.mgr = mgr_now
                  /\ o.stats = stats
                  /\ o.events = <<>>
            /\ o.ret = TRUE =>
                  /\ Cardinality(Vacated(entries, o)) = 1
                  /\ \A s \in Slots \ Vacated(entries, o) : o.entries[s] = entries[s]
                  /\ o.stats = [stats EXCEPT !.total_deletes = @ + 1,
                                             !.active_entries = @ - 1]
                  /\ \A s \in Vacated(entries, o) :
                        o.events = <<Event(s, entries[s].mac, MAC_TABLE_DELETED)>>

\* the heap entries of slot s, as a set of (slot, expiry) records
HeapOf(h, s) == {h[i] : i \in HeapPositions(h, s)}

\* C15: evict_by_role(role) tombstones every OCCUPIED slot with that role,
\* removes each such slot's queue entry, counts one delete per evicted slot,
\* returns their number and leaves the OCCUPIED slots of other roles and
\* their queue entries unchanged.
C15_EvictByRole ==
    \A role \in Roles :
        LET o == mac_table_evict_by_role(entries, mgr_now, stats, role, now)
            match == {s \in Occupied(entries) : entries[s].role = role}
        IN  /\ \A s \in match : o.entries[s].state = SLOT_TOMBSTONE
            /\ \A s \in match : HeapPositions(o.mgr.heap, s) = {}
            /\ o.stats = [stats EXCEPT !.total_deletes = @ + Cardinality(match),
                                       !.active_entries = @ - Cardinality(match)]
            /\ o.ret = Cardinality(match)
            /\ \A s \in Slots \ match :
                  /\ o.entries[s] = entries[s]
                  /\ HeapOf(o.mgr.heap, s) = HeapOf(heap, s)

\* C16: after clear() no slot is OCCUPIED, the expiry queue is empty,
\* active_entries is 0 and the returned count is the number of slots that
\* were OCCUPIED before the call.
C16_Clear ==
    LET o == mac_table_clear(entries, mgr_now, stats, now) IN
    /\ Occupied(o.entries) = {}
    /\ Len(o.mgr.heap) = 0
    /\ o.stats.active_entries = 0
    /\ o.ret = Cardinality(Occupied(entries))

\* C17: the timer callback and the application's operations are serialized:
\* in no reachable state is the callback partway through its pop, validate,
\* tombstone and counter updates while an application operation is partway
\* through its own accesses to the slots, the heap or the counters.
C17_Serialized == ~(app_pc.at # "idle" /\ timer_pc.at # "idle")

\* C18: after every operation an armed timer's deadline is not later than the
\* smallest expiry in the queue, or not later than the clock when that
\* expiry has already passed.
C18_DeadlineNotLate ==
    (timer_active /\ Len(heap) > 0) =>
        \/ timer_deadline <= min_heap_peek(heap)
        \/ timer_deadline <= now

\* C19: after every operation or timer fire the expiry timer is armed
\* exactly when the expiry queue is not empty.
C19_ArmedIffNonEmpty == timer_active <=> (Len(heap) > 0)

CountersGrow ==
    /\ stats'.total_inserts >= stats.total_inserts
    /\ stats'.total_deletes >= stats.total_deletes
    /\ stats'.total_expired >= stats.total_expired

\* C21 as stated: total_inserts, total_deletes and total_expired never
\* decrease, under any operation (reset_stats included) and timer fire.
C21_NeverDecrease == [][CountersGrow]_vars

\* C21: total_inserts, total_deletes and total_expired never decrease in a
\* step of any operation other than reset_stats or of a timer fire;
\* reset_stats sets them back to zero.
C21_DecreaseOnlyByReset ==
    [][CountersGrow \/ (ResetStats /\ stats'.total_inserts = 0
                                   /\ stats'.total_deletes = 0
                                   /\ stats'.total_expired = 0)]_vars

\* C21 witness: after a reset with entries in the table the counters have
\* grown again, by an insert and by a delete or an expiry.
C21_Witness ==
    /\ stats.total_inserts > 0
    /\ stats.total_deletes + stats.total_expired > 0
    /\ stats.total_inserts < stats.active_entries + stats.total_deletes + stats.total_expired

\* the event carries the slot the operation changed from entries to
\* o.entries, and that slot's key; a Full event carries no slot (-1) and
\* comes with no change
EventNamesSlot(ev, o) ==
    IF ev.status = MAC_TABLE_FULL
    THEN ev.slot_index = -1 /\ o.entries = entries
    ELSE /\ ev.slot_index \in Slots
         /\ IF ev.status \in {MAC_TABLE_INSERTED, MAC_TABLE_UPDATED}
            THEN /\ o.entries[ev.slot_index].state = SLOT_OCCUPIED
                 /\ o.entries[ev.slot_index].mac = ev.mac
                 /\ o.entries[ev.slot_index] # entries[ev.slot_index]
                    \/ ev.status = MAC_TABLE_UPDATED
            ELSE /\ ev.status \in {MAC_TABLE_DELETED, MAC_TABLE_TIMEOUT}
                 /\ entries[ev.slot_index].state = SLOT_OCCUPIED
                 /\ entries[ev.slot_index].mac = ev.mac
                 /\ o.entries[ev.slot_index].state = SLOT_TOMBSTONE
EventsNameSlots(o) == \A i \in 1 .. Len(o.events) : EventNamesSlot(o.events[i], o)

\* C22: every Inserted, Updated, Deleted and Timeout event carries the index
\* of the slot the operation changed and that slot's key, for insert, delete,
\* remove_oldest, evict_by_role, clear and timer expiry; a Full event carries
\* the absent-index value and the rejected key.
C22_EventsNameSlots ==
    /\ \A mac \in Macs, opts \in AnyOpts :
          LET o == mac_table_insert_ex(entries, mgr_now, stats, mac, opts, now)
          IN  EventsNameSlots(o) /\ Len(o.events) = 1 /\ o.events[1].mac = mac
    /\ \A mac \in Macs :
          EventsNameSlots(mac_table_delete(entries, mgr_now, stats, mac, now))
    /\ \A protected_roles \in ProtectedSet :
          EventsNameSlots(mac_table_remove_oldest(entries, mgr_now, stats,
                                                  protected_roles, now))
    /\ EventsNameSlots(expiry_timer_callback(entries, mgr_now, stats, now))
    /\ \A role \in Roles :
          EventsNameSlots(mac_table_evict_by_role(entries, mgr_now, stats, role, now))
    /\ EventsNameSlots(mac_table_clear(entries, mgr_now, stats, now))

\* a failed call holds no block and leaves no struct with stats or
\* expiry_manager set
NothingLeft(pc) ==
    /\ pc.held = {}
    /\ pc.table # NULL => pc.table[1].stats = NULL /\ pc.table[1].expiry_manager = NULL

\* C23: mac_table_init fails when the capacity is 0 or an argument is null,
\* and whenever it fails, for whatever reason, no block allocated during the
\* call is still held and no partly initialised table is left.
C23_InitAllOrNothing ==
    /\ app_pc.at = "init" /\ (app_pc.table = NULL \/ app_pc.slots = NULL \/ app_pc.size = 0)
       => ~mac_table_init(app_pc.table, app_pc.slots, app_pc.size, ExpirySeconds,
                          <<"on_event">>, app_pc.fails).ret
    /\ app_pc.at = "init_failed" => NothingLeft(app_pc)

\* C24: no operation changes a slot from TOMBSTONE or OCCUPIED back to EMPTY:
\* a slot that has left EMPTY stays non-EMPTY in every later state, so the
\* number of EMPTY slots never grows.
EmptySlots(e) == {s \in Slots : e[s].state = SLOT_EMPTY}
C24_NeverBackToEmpty ==
    [][/\ \A s \in Slots : entries[s].state # SLOT_EMPTY => entries'[s].state # SLOT_EMPTY
       /\ Cardinality(EmptySlots(entries')) <= Cardinality(EmptySlots(entries))]_vars
\* a table in which every slot has left EMPTY, with tombstones next to an
\* occupied slot, after deletions and a later insert
C24_Witness ==
    /\ EmptySlots(entries) = {}
    /\ \E s \in Slots : entries[s].state = SLOT_TOMBSTONE
    /\ \E s \in Slots : entries[s].state = SLOT_OCCUPIED
    /\ stats.total_deletes > 0
    /\ stats.total_inserts > stats.active_entries + 1

\* six pairs of hexadecimal digits, of either case, joined by single colons
HexChars == (48 .. 57) \cup (97 .. 102) \cup (65 .. 70)
WellFormed(str) ==
    /\ Len(str) = 3 * MAC_ADDR_LEN - 1
    /\ \A p \in 1 .. Len(str) : IF p % 3 = 0 THEN str[p] = 58 ELSE str[p] \in HexChars

\* C25: for every key k, str_to_mac(mac_to_str(k)) succeeds and yields k;
\* str_to_mac returns false for every string that is not exactly six pairs of
\* hexadecimal digits joined by single colons, too short or with trailing
\* characters included.
C25_RoundTrip ==
    /\ app_pc.at = "encoded" =>
          /\ WellFormed(app_pc.str)
          /\ str_to_mac(app_pc.str, ZeroMac) = [ret |-> TRUE, mac |-> app_pc.mac]
    /\ app_pc.at = "decoded" => (app_pc.ret <=> WellFormed(app_pc.str))
\* a formatted key with one character appended has been parsed and rejected
C25_Witness ==
    /\ app_pc.at = "decoded"
    /\ ~app_pc.ret
    /\ Len(app_pc.str) = 3 * MAC_ADDR_LEN
    /\ WellFormed(SubSeq(app_pc.str, 1, 3 * MAC_ADDR_LEN - 1))
    /\ app_pc.mac \in TextKeys

\* C26: after every upsert, removal by slot and pop, in any sequence, every
\* non-root entry of the heap array has an expiry_time >= its parent's, so
\* the root holds the minimum expiry_time of the queue.
C26_HeapOrder ==
    /\ \A i \in 1 .. (Len(heap) - 1) :
          heap[i + 1].expiry_time >= heap[heap_parent(i) + 1].expiry_time
    /\ \A i \in 1 .. Len(heap) : heap[1].expiry_time <= heap[i].expiry_time
    /\ Len(heap) > 0 => min_heap_peek(heap) = heap[1].expiry_time
\* a full heap of three levels holding different expiry times, the later one
\* not only in the last positions
C26_Witness ==
    /\ Len(heap) = HeapCapacity
    /\ heap[1].expiry_time < heap[2].expiry_time
    /\ heap[3].expiry_time < heap[2].expiry_time
    /\ heap[Len(heap)].expiry_time < heap[2].expiry_time

\* the heap positions whose expiry has passed, and those among them whose
\* slot is not OCCUPIED or is OCCUPIED with another expiry
DueEntries == {i \in 1 .. Len(heap) : heap[i].expiry_time <= now}
StaleDue ==
    {i \in DueEntries :
        \/ heap[i].slot_index \notin Occupied(entries)
        \/ entries[heap[i].slot_index].timeout_duration # heap[i].expiry_time}

\* C27: a due queue entry whose slot is not OCCUPIED, or is OCCUPIED with an
\* expiry other than the popped one, is discarded by the timer fire: the slot
\* keeps its state, key, role and expiry, no event names it, and the counters
\* move only by the number of the due entries that do match.
C27_StaleDiscarded ==
    TimerDue =>
        LET o == expiry_timer_callback(entries, mgr_now, stats, now) IN
        /\ \A i \in StaleDue :
              /\ o.entries[heap[i].slot_index] = entries[heap[i].slot_index]
              /\ \A k \in 1 .. Len(o.events) :
                    o.events[k].slot_index # heap[i].slot_index
              /\ \A k \in 1 .. Len(o.mgr.heap) :
                    o.mgr.heap[k].slot_index # heap[i].slot_index
        /\ Len(o.events) = Cardinality(DueEntries \ StaleDue)
        /\ o.stats = [stats EXCEPT
                         !.total_expired = @ + Cardinality(DueEntries \ StaleDue),
                         !.active_entries = @ - Cardinality(DueEntries \ StaleDue)]
\* the timer fires over a due entry of a vacated slot and a due entry that
\* matches its slot
C27_Witness ==
    /\ TimerDue
    /\ StaleDue # {}
    /\ DueEntries \ StaleDue # {}
    /\ Len(expiry_timer_callback(entries, mgr_now, stats, now).mgr.heap) < Len(heap) - 1

\* C28: a timer fire while no queue entry has an expiry <= now changes no
\* slot, no queue entry and no counter and emits no event; it re-arms the
\* timer, for the earliest expiry, exactly if the queue is not empty.
C28_NothingDue ==
    TimerDue /\ DueEntries = {} =>
        LET o == expiry_timer_callback(entries, mgr_now, stats, now) IN
        /\ o.entries = entries
        /\ o.mgr.heap = heap
        /\ o.stats = stats
        /\ o.events = <<>>
        /\ o.mgr.timer_active = (Len(heap) > 0)
        /\ Len(heap) > 0 => o.mgr.timer_deadline = min_heap_peek(heap)
\* the timer fires at the deadline of an entry that was refreshed to a later
\* expiry in the meantime
C28_Witness ==
    /\ TimerDue
    /\ DueEntries = {}
    /\ Len(heap) > 0
    /\ timer_deadline < min_heap_peek(heap)
    /\ stats.total_inserts > 0

\* the table reflects the event the application's call delivers
AppSinkReflects ==
    /\ stats.active_entries = Cardinality(Occupied(entries))
    /\ app_pc.status \in {MAC_TABLE_INSERTED, MAC_TABLE_UPDATED} =>
          /\ entries[app_pc.probe].state = SLOT_OCCUPIED
          /\ entries[app_pc.probe].mac = app_pc.mac
    /\ app_pc.status = MAC_TABLE_DELETED =>
          /\ entries[app_pc.probe].state = SLOT_TOMBSTONE
          /\ ~Present(entries, app_pc.mac)
    /\ app_pc.status = MAC_TABLE_FULL => Occupied(entries) = Slots

\* C29: whenever an event is being delivered, the table already shows the
\* change: a Timeout event is delivered after the expired slot has been made
\* a TOMBSTONE, and inside the sink active_entries is the number of OCCUPIED
\* slots.
C29_SinkSeesMutation ==
    /\ app_pc.at = "sink" => AppSinkReflects
    /\ timer_pc.at = "sink" =>
          /\ entries[timer_pc.slot_index].state = SLOT_TOMBSTONE
          /\ stats.active_entries = Cardinality(Occupied(entries))

\* C30: refreshing a present key overwrites its role with the role of the
\* refreshing call.  insert without options on an entry stored with a role
\* r # 0 leaves it with role 0, so that evict_by_role(r) no longer takes it
\* and remove_oldest with r protected can evict it; insert_ex with a role
\* leaves exactly that role.
C30_RefreshSetsRole ==
    \A s \in Occupied(entries) :
        /\ LET o == mac_table_insert(entries, mgr_now, stats, entries[s].mac, now) IN
           /\ o.ret = MAC_TABLE_UPDATED
           /\ o.entries[s].role = 0
           /\ entries[s].role # 0 =>
                 /\ mac_table_evict_by_role(o.entries, o.mgr, o.stats, entries[s].role,
                                            now).entries[s].state = SLOT_OCCUPIED
                 /\ s \in Evictable(o.entries, <<entries[s].role>>)
                 /\ mac_table_remove_oldest(o.entries, o.mgr, o.stats,
                                            <<entries[s].role>>, now).ret
        /\ \A opts \in OptsSet :
              LET o == mac_table_insert_ex(entries, mgr_now, stats, entries[s].mac,
                                           opts, now)
              IN  /\ o.ret = MAC_TABLE_UPDATED
                  /\ o.entries[s].role = IF opts[1].has_role THEN opts[1].role ELSE 0
\* an entry stored with role 1, which a refresh by insert without options
\* leaves with role 0, next to an entry of role 0 written after the clock moved
C30_Witness ==
    \E s \in Occupied(entries), u \in Occupied(entries) :
        /\ entries[s].role = 1
        /\ entries[u].role = 0
        /\ entries[u].timeout_duration > ExpirySeconds
        /\ mac_table_insert(entries, mgr_now, stats, entries[s].mac, now).entries[s].role = 0

\* what exists and get_by_index answer in the current state: every OCCUPIED
\* entry is found, with its stored fields, whether or not its expiry has
\* passed; a slot that is not OCCUPIED is not found
LookupAnswers ==
    /\ \A s \in Occupied(entries) :
          /\ mac_table_exists(entries, entries[s].mac) = MAC_TABLE_OK
          /\ mac_table_get_by_index(entries, s) =
                [ret |-> MAC_TABLE_OK, out |-> <<entries[s]>>]
    /\ \A s \in Slots \ Occupied(entries) :
          mac_table_get_by_index(entries, s).ret = MAC_TABLE_NOT_FOUND
    /\ \A mac \in Macs :
          ~Present(entries, mac) => mac_table_exists(entries, mac) = MAC_TABLE_NOT_FOUND
\* a step of exists or get_by_index changes nothing
LookupWritesNothing ==
    /\ \A mac \in Macs : Exists(mac) => UNCHANGED vars
    /\ \A index \in 0 .. TableSize : GetByIndex(index) => UNCHANGED vars

\* C31: exists and get_by_index answer from the slot states alone, whatever
\* the clock says: an OCCUPIED entry whose expiry is already <= now and which
\* the timer has not purged yet is still reported as found; neither operation
\* changes a slot, a queue entry, a counter or the timer.
C31_LookupIgnoresClock == []LookupAnswers /\ [][LookupWritesNothing]_vars
\* an entry whose expiry has passed while the timer has not fired yet
C31_Witness ==
    /\ TimerDue
    /\ \E s \in Occupied(entries) :
          /\ entries[s].timeout_duration <= now
          /\ mac_table_exists(entries, entries[s].mac) = MAC_TABLE_OK
    /\ \E s \in Occupied(entries) : entries[s].timeout_duration > now

\* C32: with reset_stats never called, active_entries = total_inserts -
\* total_deletes - total_expired after every operation and timer fire; a
\* refresh, a Full insert and a NotFound delete change none of the four
\* counters.
C32_CounterBalance ==
    /\ stats.active_entries =
          stats.total_inserts - stats.total_deletes - stats.total_expired
    /\ \A mac \in Macs, opts \in AnyOpts :
          LET o == mac_table_insert_ex(entries, mgr_now, stats, mac, opts, now)
          IN  o.ret \in {MAC_TABLE_UPDATED, MAC_TABLE_FULL} => o.stats = stats
    /\ \A mac \in Macs :
          LET o == mac_table_delete(entries, mgr_now, stats, mac, now)
          IN  o.ret = MAC_TABLE_NOT_FOUND => o.stats = stats
\* inserts, deletions and expiries have all happened and an entry is stored
C32_Witness ==
    /\ stats.total_deletes > 0
    /\ stats.total_expired > 0
    /\ stats.active_entries > 0
    /\ stats.total_inserts > stats.active_entries + 1
    /\ \E mac \in Macs :
          mac_table_insert(entries, mgr_now, stats, mac, now).ret = MAC_TABLE_UPDATED

\* the expiry of the entry a Timeout event of the pending fire is about
EventExpiry(ev) == entries[ev.slot_index].timeout_duration

\* C33: within one timer fire the Timeout events come in non-decreasing
\* order of the expiry of the entries they are about.
C33_TimeoutOrder ==
    TimerDue =>
        LET o == expiry_timer_callback(entries, mgr_now, stats, now) IN
        \A i, j \in 1 .. Len(o.events) :
            i < j =>
                /\ o.events[i].status = MAC_TABLE_TIMEOUT
                /\ o.events[i].slot_index \in Occupied(entries)
                /\ o.events[j].slot_index \in Occupied(entries)
                /\ EventExpiry(o.events[i]) <= EventExpiry(o.events[j])
\* the timer fires over three due entries, the last of them in the heap
\* array with a later expiry than the two before it
C33_Witness ==
    /\ TimerDue
    /\ Len(heap) = 3
    /\ heap[3].expiry_time > heap[2].expiry_time
    /\ LET o == expiry_timer_callback(entries, mgr_now, stats, now) IN
       /\ Len(o.events) = 3
       /\ EventExpiry(o.events[1]) < EventExpiry(o.events[3])

\* C34: the expiry queue never holds two entries of one slot nor more entries
\* than the table has slots, so the min_heap_insert of add_or_update never
\* meets a full heap: after every insert and refresh the slot's entry is in
\* the queue, and every OCCUPIED slot has its entry.
C34_QueueWithinCapacity ==
    /\ \A s \in Slots : Cardinality(HeapPositions(heap, s)) <= 1
    /\ Len(heap) <= TableSize
    /\ \A s \in Occupied(entries) : Cardinality(HeapPositions(heap, s)) = 1
    /\ \A mac \in Macs, opts \in AnyOpts :
          LET o == mac_table_insert_ex(entries, mgr_now, stats, mac, opts, now) IN
          o.ret # MAC_TABLE_FULL =>
              /\ Len(min_heap_remove(heap, o.events[1].slot_index)) < TableSize
              /\ \E i \in 1 .. Len(o.mgr.heap) :
                    o.mgr.heap[i] = HeapEntry(o.events[1].slot_index,
                                              NewExpiry(opts, now))
              /\ \A s \in Slots : Cardinality(HeapPositions(o.mgr.heap, s)) <= 1
\* the queue is full, one of its entries belongs to a vacated slot, and an
\* insert that reuses that slot gets its entry into the queue
C34_Witness ==
    /\ Len(heap) = TableSize
    /\ \E mac \in Macs :
          LET o == mac_table_insert(entries, mgr_now, stats, mac, now) IN
          /\ o.ret = MAC_TABLE_INSERTED
          /\ entries[o.events[1].slot_index].state = SLOT_TOMBSTONE
          /\ HeapPositions(heap, o.events[1].slot_index) # {}
          /\ Len(o.mgr.heap) = TableSize

====
